---- MODULE Spec2Model ----
(***************************************************************************)
(* Model of the 'switch_port' command of tplink_omada_client               *)
(* (src/tplink_omada_client/cli/command_switch_port.py): the enable and    *)
(* disable procedures for one switch port, and the calls they issue to the *)
(* site client (get_switch_port, get_port_profiles, update_switch_port).   *)
(* Every awaited call is one step; a call may raise, and the exception     *)
(* propagates out of the command.                                          *)
(***************************************************************************)
EXTENDS Integers, Sequences, FiniteSets, TLC

VARIABLES
    ctl_port,           \* the controller's configuration of the port
    ctl_profiles,       \* the site's port profiles, as get_port_profiles lists them
    pc,                 \* position of the command
    args,               \* parsed command line: enable, disable, apply_schedule, dump
    port_details,       \* local 'port_details' of the running operation
    original_profile,   \* local 'original_profile' of the enable operation
    disable_profile_id, \* local 'disable_profile_id'
    calls,              \* site client calls issued by this invocation, in order
    output,             \* lines printed by this invocation
    error,              \* exception that ended the invocation, or "None"
    start_port,         \* controller's port configuration when the invocation began
    invocation          \* number of invocations of the command started so far

vars == <<ctl_port, ctl_profiles, pc, args, port_details, original_profile,
          disable_profile_id, calls, output, error, start_port, invocation>>

----
\* Bounds

MaxInvocations == 2

MaxVariant == 2

----
\* Port data

RequiredKeys == {"operation", "linkSpeed", "duplex", "dot1x", "poe",
                 "bandWidthCtrlType", "lldpMedEnable", "spanningTreeEnable",
                 "loopbackDetectEnable", "portIsolationEnable"}

OptionalKeys == {"topoNotifyEnable", "eeeEnable", "flowControlEnable", "fastLeaveEnable"}

None == "None"

EmptyPayload == [k \in {} |-> FALSE]

\* Value of an optional raw field in settings variant v
RawValue(k, v) ==
    CASE k = "topoNotifyEnable" -> (v % 2 = 1)
      [] k = "eeeEnable" -> (v % 2 = 0)
      [] k = "flowControlEnable" -> (v % 3 = 1)
      [] k = "fastLeaveEnable" -> (v % 3 # 1)

\* A port as the site client presents it (OmadaSwitchPortDetails): settings
\* variant v, optional raw fields present, profile p, schedule flags.
PortOf(v, present, p, sched, schedOn) ==
    [ profile_id |-> p,
      has_schedule |-> sched,
      schedule_enable |-> schedOn,
      operation |-> IF v % 2 = 1 THEN "switching" ELSE "mirroring",
      link_speed |-> [value |-> v],
      duplex |-> [value |-> 10 + v],
      eth_802_1x_control |-> [value |-> 20 + v],
      poe_mode |-> [value |-> 30 + v],
      bandwidth_limit_mode |-> [value |-> 40 + v],
      lldp_med_enabled |-> (v % 2 = 1),
      spanning_tree_enabled |-> (v % 2 = 0),
      loopback_detect_enabled |-> (v % 3 = 0),
      port_isolation_enabled |-> (v % 3 # 0),
      topology_notify_enabled |-> ("topoNotifyEnable" \in present /\ RawValue("topoNotifyEnable", v)),
      data |-> [k \in present |-> RawValue(k, v)],
      read_at |-> 0 ]

NoDetails == PortOf(0, {}, None, FALSE, FALSE)

Profile(n, i) == [name |-> n, profile_id |-> i]

\* Profile lists a site may have
ProfileLists ==
    { << Profile("All", "p-default"), Profile("Disable", "p-1") >>,
      << Profile("Office", "p-2"), Profile("Disable", "p-1"), Profile("All", "p-default") >>,
      << Profile("All", "p-default"), Profile("disable", "p-2") >>,
      << Profile("All", "p-default") >> }

ProfileIds(ps) == { ps[i].profile_id : i \in 1..Len(ps) }

----
\* Site client (collaborator of the command)

\* Controller applies update_switch_port(device, port, profile_id=, overrides=)
ApplyOverrides(port, o) ==
    [ port EXCEPT
      !.schedule_enable = IF "scheduleEnable" \in DOMAIN o THEN o["scheduleEnable"] ELSE @,
      !.operation = IF "operation" \in DOMAIN o THEN o["operation"] ELSE @,
      !.link_speed = IF "linkSpeed" \in DOMAIN o THEN [value |-> o["linkSpeed"]] ELSE @,
      !.duplex = IF "duplex" \in DOMAIN o THEN [value |-> o["duplex"]] ELSE @,
      !.eth_802_1x_control = IF "dot1x" \in DOMAIN o THEN [value |-> o["dot1x"]] ELSE @,
      !.poe_mode = IF "poe" \in DOMAIN o THEN [value |-> o["poe"]] ELSE @,
      !.bandwidth_limit_mode = IF "bandWidthCtrlType" \in DOMAIN o
                               THEN [value |-> o["bandWidthCtrlType"]] ELSE @,
      !.lldp_med_enabled = IF "lldpMedEnable" \in DOMAIN o THEN o["lldpMedEnable"] ELSE @,
      !.spanning_tree_enabled = IF "spanningTreeEnable" \in DOMAIN o
                                THEN o["spanningTreeEnable"] ELSE @,
      !.loopback_detect_enabled = IF "loopbackDetectEnable" \in DOMAIN o
                                  THEN o["loopbackDetectEnable"] ELSE @,
      !.port_isolation_enabled = IF "portIsolationEnable" \in DOMAIN o
                                 THEN o["portIsolationEnable"] ELSE @,
      !.topology_notify_enabled = IF "topoNotifyEnable" \in DOMAIN o
                                  THEN o["topoNotifyEnable"] ELSE @,
      !.data = [k \in DOMAIN port.data |->
                  IF k \in DOMAIN o THEN o[k] ELSE port.data[k]] ]

update_switch_port(port, profile_id, has_overrides, overrides) ==
    LET p1 == IF profile_id = None THEN port ELSE [port EXCEPT !.profile_id = profile_id]
    IN IF has_overrides THEN ApplyOverrides(p1, overrides) ELSE p1

\* What get_switch_port returns as the call number n of the invocation
get_switch_port(n) == [ctl_port EXCEPT !.read_at = n]

\* OmadaSwitchPortDetails.is_disabled: the port is on the "Disable" profile
is_disabled(port) ==
    \E i \in 1..Len(ctl_profiles) :
        ctl_profiles[i].name = "Disable" /\ ctl_profiles[i].profile_id = port.profile_id

----
\* Call log

GetPortEntry(ok, ret) ==
    [call |-> "get_switch_port", ok |-> ok, profile_id |-> None,
     has_overrides |-> FALSE, overrides |-> EmptyPayload, from_read |-> 0, ret |-> ret]

ProfilesEntry(ok) ==
    [call |-> "get_port_profiles", ok |-> ok, profile_id |-> None,
     has_overrides |-> FALSE, overrides |-> EmptyPayload, from_read |-> 0, ret |-> NoDetails]

UpdateEntry(ok, profile_id, has_overrides, overrides, from_read) ==
    [call |-> "update_switch_port", ok |-> ok, profile_id |-> profile_id,
     has_overrides |-> has_overrides, overrides |-> overrides,
     from_read |-> from_read, ret |-> NoDetails]

----
\* command_switch_port.py

SetKey(payload, key, v) ==
    [k \in DOMAIN payload \cup {key} |-> IF k = key THEN v ELSE payload[k]]

\* slip: the optional raw fields are left out of the payload
preserve_port_settings_DropOptional(pd) ==
    [k \in RequiredKeys |->
          CASE k = "operation" -> pd.operation
            [] k = "linkSpeed" -> pd.link_speed.value
            [] k = "duplex" -> pd.duplex.value
            [] k = "dot1x" -> pd.eth_802_1x_control.value
            [] k = "poe" -> pd.poe_mode.value
            [] k = "bandWidthCtrlType" -> pd.bandwidth_limit_mode.value
            [] k = "lldpMedEnable" -> pd.lldp_med_enabled
            [] k = "spanningTreeEnable" -> pd.spanning_tree_enabled
            [] k = "loopbackDetectEnable" -> pd.loopback_detect_enabled
            [] OTHER -> pd.port_isolation_enabled]

\* _preserve_port_settings: payload that preserves the current port settings
preserve_port_settings(pd) ==
    LET present == {k \in OptionalKeys : k \in DOMAIN pd.data}
    IN [k \in RequiredKeys \cup present |->
          CASE k = "operation" -> pd.operation
            [] k = "linkSpeed" -> pd.link_speed.value
            [] k = "duplex" -> pd.duplex.value
            [] k = "dot1x" -> pd.eth_802_1x_control.value
            [] k = "poe" -> pd.poe_mode.value
            [] k = "bandWidthCtrlType" -> pd.bandwidth_limit_mode.value
            [] k = "lldpMedEnable" -> pd.lldp_med_enabled
            [] k = "spanningTreeEnable" -> pd.spanning_tree_enabled
            [] k = "loopbackDetectEnable" -> pd.loopback_detect_enabled
            [] k = "portIsolationEnable" -> pd.port_isolation_enabled
            [] k = "topoNotifyEnable" -> pd.topology_notify_enabled
            [] OTHER -> pd.data[k]]

NotFound == "NotFound"

\* the loop of _get_disable_profile_id over profiles[i..]
RECURSIVE FindDisable(_, _)
FindDisable(profiles, i) ==
    IF i > Len(profiles) THEN NotFound
    ELSE IF profiles[i].name = "Disable" THEN profiles[i].profile_id
    ELSE FindDisable(profiles, i + 1)

\* slip: the name is matched without regard to case
get_disable_profile_id_AnyCase(profiles) ==
    LET hits == {i \in 1..Len(profiles) : profiles[i].name \in {"Disable", "disable"}}
    IN IF hits = {} THEN NotFound
       ELSE profiles[CHOOSE i \in hits : \A j \in hits : i <= j].profile_id

\* _get_disable_profile_id, given the list get_port_profiles returned
get_disable_profile_id(profiles) == FindDisable(profiles, 1)

\* slip: the exception of a failed call is swallowed
Await_Swallow(ok, next) == next

\* an awaited call that raises ends the operation; otherwise it goes on
Await(ok, next) == IF ok THEN next ELSE "error"

\* slip: the schedule branch returns without issuing its update
EnableBranch_SkipUpdate(pd) == IF pd.has_schedule THEN "returned" ELSE "e_lookup"

\* _enable_port_via_schedule: 'if port_details.has_schedule'
EnableBranch(pd) == IF pd.has_schedule THEN "e_sched" ELSE "e_lookup"

\* slip: the apply_schedule flag is not consulted
DisableBranch_IgnoreFlag(pd, apply_schedule) ==
    IF pd.has_schedule THEN "d_sched" ELSE "d_lookup"

\* _disable_port_via_schedule: 'if port_details.has_schedule and apply_schedule'
DisableBranch(pd, apply_schedule) ==
    IF pd.has_schedule /\ apply_schedule THEN "d_sched" ELSE "d_lookup"

EnablePayload(pd) == SetKey(preserve_port_settings(pd), "scheduleEnable", FALSE)

\* slip: the schedule flag is set the wrong way round
DisablePayload_ScheduleOff(pd) == SetKey(preserve_port_settings(pd), "scheduleEnable", FALSE)

DisablePayload(pd) == SetKey(preserve_port_settings(pd), "scheduleEnable", TRUE)

\* the update_switch_port calls of the two operations
EnableScheduleCall(ok) ==
    UpdateEntry(ok, None, TRUE, EnablePayload(port_details), port_details.read_at)

TempDisableCall(ok) == UpdateEntry(ok, disable_profile_id, FALSE, EmptyPayload, 0)

\* slip: the restore passes the wrong variable
RestoreCall_WrongProfile(ok) ==
    UpdateEntry(ok, disable_profile_id, FALSE, EmptyPayload, 0)

\* slip: the restore uses the port's profile as it is now, not as first read
RestoreCall_Current(ok) ==
    UpdateEntry(ok, ctl_port.profile_id, FALSE, EmptyPayload, Len(calls))

RestoreCall(ok) ==
    UpdateEntry(ok, original_profile, FALSE, EmptyPayload, port_details.read_at)

DisableScheduleCall(ok) ==
    UpdateEntry(ok, None, TRUE, DisablePayload(port_details), port_details.read_at)

DisableProfileCall(ok) == UpdateEntry(ok, disable_profile_id, FALSE, EmptyPayload, 0)

\* effect of an update_switch_port call on the controller
Issue(c) ==
    /\ calls' = Append(calls, c)
    /\ ctl_port' = IF c.ok
                   THEN update_switch_port(ctl_port, c.profile_id, c.has_overrides, c.overrides)
                   ELSE ctl_port

Raise(ok, e) == error' = IF ok THEN error ELSE e

----
\* State after construction: the controller holds some port configuration and
\* profile list; no command has run.

Init ==
    /\ ctl_profiles \in ProfileLists
    /\ \E v \in 1..MaxVariant, present \in SUBSET OptionalKeys,
          p \in ProfileIds(ctl_profiles), sched \in BOOLEAN, schedOn \in BOOLEAN :
          /\ (schedOn => sched)
          /\ ctl_port = PortOf(v, present, p, sched, schedOn)
    /\ pc = "idle"
    /\ args = [enable |-> FALSE, disable |-> FALSE, apply_schedule |-> FALSE, dump |-> FALSE]
    /\ port_details = NoDetails
    /\ original_profile = None
    /\ disable_profile_id = None
    /\ calls = << >>
    /\ output = << >>
    /\ error = None
    /\ start_port = ctl_port
    /\ invocation = 0

Locals == <<port_details, original_profile, disable_profile_id>>

\* command_switch_port up to the dispatch: a new process parses its arguments,
\* connects, resolves the device and enters the chosen operation
StartCommand ==
    /\ pc \in {"idle", "exit", "error"}
    /\ invocation < MaxInvocations
    /\ invocation' = invocation + 1
    /\ \E en \in BOOLEAN, ap \in BOOLEAN, d \in BOOLEAN :
          /\ args' = [enable |-> en, disable |-> ~en, apply_schedule |-> ap, dump |-> d]
          /\ pc' = IF en THEN "e_get" ELSE "d_get"
    /\ port_details' = NoDetails
    /\ original_profile' = None
    /\ disable_profile_id' = None
    /\ calls' = << >>
    /\ output' = << >>
    /\ error' = None
    /\ start_port' = ctl_port
    /\ UNCHANGED <<ctl_port, ctl_profiles>>

\* the connection or the device lookup fails before any operation starts
StartCommandFails ==
    /\ pc \in {"idle", "exit", "error"}
    /\ invocation < MaxInvocations
    /\ invocation' = invocation + 1
    /\ \E en \in BOOLEAN, ap \in BOOLEAN, d \in BOOLEAN :
          args' = [enable |-> en, disable |-> ~en, apply_schedule |-> ap, dump |-> d]
    /\ pc' = "error"
    /\ error' = "ClientError"
    /\ port_details' = NoDetails
    /\ original_profile' = None
    /\ disable_profile_id' = None
    /\ calls' = << >>
    /\ output' = << >>
    /\ start_port' = ctl_port
    /\ UNCHANGED <<ctl_port, ctl_profiles>>

\* _enable_port_via_schedule: port_details = await get_switch_port(...);
\* original_profile = port_details.profile_id
EnableGetPort ==
    /\ pc = "e_get"
    /\ \E ok \in BOOLEAN :
          LET pd == get_switch_port(Len(calls) + 1) IN
          /\ calls' = Append(calls, GetPortEntry(ok, IF ok THEN pd ELSE NoDetails))
          /\ port_details' = IF ok THEN pd ELSE port_details
          /\ original_profile' = IF ok THEN pd.profile_id ELSE original_profile
          /\ pc' = Await(ok, EnableBranch(port_details'))
          /\ Raise(ok, "ClientError")
    /\ UNCHANGED <<ctl_port, ctl_profiles, args, disable_profile_id, output,
                   start_port, invocation>>

\* schedule branch: one update with the preserved settings and scheduleEnable False
EnableScheduleUpdate ==
    /\ pc = "e_sched"
    /\ \E ok \in BOOLEAN :
          /\ Issue(EnableScheduleCall(ok))
          /\ pc' = Await(ok, "returned")
          /\ output' = IF pc' = "returned"
                       THEN Append(output, "enabled by disabling schedule") ELSE output
          /\ Raise(ok, "ClientError")
    /\ UNCHANGED <<ctl_profiles, args, Locals, start_port, invocation>>

\* disable_profile_id = await _get_disable_profile_id(site_client)
EnableLookup ==
    /\ pc = "e_lookup"
    /\ \E ok \in BOOLEAN :
          LET id == get_disable_profile_id(ctl_profiles) IN
          /\ calls' = Append(calls, ProfilesEntry(ok))
          /\ disable_profile_id' = IF ok /\ id # NotFound THEN id ELSE disable_profile_id
          /\ pc' = Await(ok /\ id # NotFound, "e_disable")
          /\ error' = IF ~ok THEN "ClientError"
                      ELSE IF id = NotFound THEN "ValueError" ELSE error
    /\ UNCHANGED <<ctl_port, ctl_profiles, args, port_details, original_profile,
                   output, start_port, invocation>>

\* first update: profile_id = disable_profile_id
EnableTempDisable ==
    /\ pc = "e_disable"
    /\ \E ok \in BOOLEAN :
          /\ Issue(TempDisableCall(ok))
          /\ pc' = Await(ok, "e_sleep")
          /\ output' = IF pc' = "e_sleep"
                       THEN Append(output, "temporarily disabled") ELSE output
          /\ Raise(ok, "ClientError")
    /\ UNCHANGED <<ctl_profiles, args, Locals, start_port, invocation>>

\* await asyncio.sleep(1)
EnableSleep ==
    /\ pc = "e_sleep"
    /\ pc' = "e_restore"
    /\ UNCHANGED <<ctl_port, ctl_profiles, args, Locals, calls, output, error,
                   start_port, invocation>>

\* second update: profile_id = original_profile
EnableRestore ==
    /\ pc = "e_restore"
    /\ \E ok \in BOOLEAN :
          /\ Issue(RestoreCall(ok))
          /\ pc' = Await(ok, "e_refresh")
          /\ output' = IF pc' = "e_refresh"
                       THEN Append(output, "re-enabled with original profile") ELSE output
          /\ Raise(ok, "ClientError")
    /\ UNCHANGED <<ctl_profiles, args, Locals, start_port, invocation>>

\* refreshed_port = await get_switch_port(...); print the status
EnableRefresh ==
    /\ pc = "e_refresh"
    /\ \E ok \in BOOLEAN :
          LET refreshed_port == get_switch_port(Len(calls) + 1) IN
          /\ calls' = Append(calls, GetPortEntry(ok, IF ok THEN refreshed_port ELSE NoDetails))
          /\ pc' = Await(ok, "returned")
          /\ output' = IF pc' = "returned"
                       THEN Append(output, IF ~is_disabled(refreshed_port)
                                           THEN "status: enabled" ELSE "status: disabled")
                       ELSE output
          /\ Raise(ok, "ClientError")
    /\ UNCHANGED <<ctl_port, ctl_profiles, args, Locals, start_port, invocation>>

\* _disable_port_via_schedule: port_details = await get_switch_port(...)
DisableGetPort ==
    /\ pc = "d_get"
    /\ \E ok \in BOOLEAN :
          LET pd == get_switch_port(Len(calls) + 1) IN
          /\ calls' = Append(calls, GetPortEntry(ok, IF ok THEN pd ELSE NoDetails))
          /\ port_details' = IF ok THEN pd ELSE port_details
          /\ pc' = Await(ok, DisableBranch(port_details', args.apply_schedule))
          /\ Raise(ok, "ClientError")
    /\ UNCHANGED <<ctl_port, ctl_profiles, args, original_profile, disable_profile_id,
                   output, start_port, invocation>>

\* schedule branch: one update with the preserved settings and scheduleEnable True
DisableScheduleUpdate ==
    /\ pc = "d_sched"
    /\ \E ok \in BOOLEAN :
          /\ Issue(DisableScheduleCall(ok))
          /\ pc' = Await(ok, "returned")
          /\ output' = IF pc' = "returned"
                       THEN Append(output, "disabled by enabling schedule") ELSE output
          /\ Raise(ok, "ClientError")
    /\ UNCHANGED <<ctl_profiles, args, Locals, start_port, invocation>>

\* disable_profile_id = await _get_disable_profile_id(site_client)
DisableLookup ==
    /\ pc = "d_lookup"
    /\ \E ok \in BOOLEAN :
          LET id == get_disable_profile_id(ctl_profiles) IN
          /\ calls' = Append(calls, ProfilesEntry(ok))
          /\ disable_profile_id' = IF ok /\ id # NotFound THEN id ELSE disable_profile_id
          /\ pc' = Await(ok /\ id # NotFound, "d_disable")
          /\ error' = IF ~ok THEN "ClientError"
                      ELSE IF id = NotFound THEN "ValueError" ELSE error
    /\ UNCHANGED <<ctl_port, ctl_profiles, args, port_details, original_profile,
                   output, start_port, invocation>>

\* the single update: profile_id = disable_profile_id
DisableProfileUpdate ==
    /\ pc = "d_disable"
    /\ \E ok \in BOOLEAN :
          /\ Issue(DisableProfileCall(ok))
          /\ pc' = Await(ok, "returned")
          /\ output' = IF pc' = "returned"
                       THEN Append(output, "disabled via profile") ELSE output
          /\ Raise(ok, "ClientError")
    /\ UNCHANGED <<ctl_profiles, args, Locals, start_port, invocation>>

\* command_switch_port after the operation returned: the optional dump, return 0
CommandFinish ==
    /\ pc = "returned"
    /\ IF args.dump
       THEN \E ok \in BOOLEAN :
              LET pd == get_switch_port(Len(calls) + 1) IN
              /\ calls' = Append(calls, GetPortEntry(ok, IF ok THEN pd ELSE NoDetails))
              /\ pc' = Await(ok, "exit")
              /\ output' = IF ok THEN Append(output, "dump") ELSE output
              /\ Raise(ok, "ClientError")
       ELSE /\ pc' = "exit"
            /\ UNCHANGED <<calls, output, error>>
    /\ UNCHANGED <<ctl_port, ctl_profiles, args, Locals, start_port, invocation>>

Next ==
    \/ StartCommand
    \/ StartCommandFails
    \/ EnableGetPort
    \/ EnableScheduleUpdate
    \/ EnableLookup
    \/ EnableTempDisable
    \/ EnableSleep
    \/ EnableRestore
    \/ EnableRefresh
    \/ DisableGetPort
    \/ DisableScheduleUpdate
    \/ DisableLookup
    \/ DisableProfileUpdate
    \/ CommandFinish

Spec == Init /\ [][Next]_vars

TypeOK ==
    /\ pc \in {"idle", "e_get", "e_sched", "e_lookup", "e_disable", "e_sleep", "e_restore",
               "e_refresh", "d_get", "d_sched", "d_lookup", "d_disable", "returned",
               "exit", "error"}
    /\ error \in {None, "ClientError", "ValueError"}
    /\ invocation \in 0..MaxInvocations
    /\ (pc = "error") <=> (error # None)

----
\* Vocabulary of the properties

IsUpdate(c) == c.call = "update_switch_port"

IsRead(c) == c.call \in {"get_switch_port", "get_port_profiles"}

Updates == SelectSeq(calls, IsUpdate)

Reads == SelectSeq(calls, IsRead)

\* ids of the profiles named exactly "Disable"
DisableIds ==
    { ctl_profiles[i].profile_id : i \in {j \in 1..Len(ctl_profiles) : ctl_profiles[j].name = "Disable"} }

\* the operation read the port, and what it read
PortRead == Len(calls) >= 1 /\ calls[1].call = "get_switch_port" /\ calls[1].ok

EnableNoSchedule == args.enable /\ PortRead /\ ~calls[1].ret.has_schedule

EnableWithSchedule == args.enable /\ PortRead /\ calls[1].ret.has_schedule

DisableProfileSwap ==
    args.disable /\ PortRead /\ (~args.apply_schedule \/ ~calls[1].ret.has_schedule)

DisableWithSchedule ==
    args.disable /\ PortRead /\ args.apply_schedule /\ calls[1].ret.has_schedule

\* the overrides payload o carries every setting of the read port r
PayloadPreserves(o, r) ==
    /\ DOMAIN o = RequiredKeys \cup (OptionalKeys \cap DOMAIN r.data) \cup {"scheduleEnable"}
    /\ o["operation"] = r.operation
    /\ o["linkSpeed"] = r.link_speed.value
    /\ o["duplex"] = r.duplex.value
    /\ o["dot1x"] = r.eth_802_1x_control.value
    /\ o["poe"] = r.poe_mode.value
    /\ o["bandWidthCtrlType"] = r.bandwidth_limit_mode.value
    /\ o["lldpMedEnable"] = r.lldp_med_enabled
    /\ o["spanningTreeEnable"] = r.spanning_tree_enabled
    /\ o["loopbackDetectEnable"] = r.loopback_detect_enabled
    /\ o["portIsolationEnable"] = r.port_isolation_enabled
    /\ \A k \in OptionalKeys \cap DOMAIN r.data : o[k] = r.data[k]

----
\* C1: enable on a port without a schedule that completes issues exactly two
\* updates, in this order: profile_id = the "Disable" profile's id, then
\* profile_id = the profile the port had when it was read at the start
\* (call 1, before any update).
C1_EnableNoScheduleTwoUpdates ==
    (pc = "returned" /\ EnableNoSchedule) =>
        /\ Len(Updates) = 2
        /\ Updates[1].profile_id \in DisableIds
        /\ ~Updates[1].has_overrides
        /\ Updates[2].profile_id = calls[1].ret.profile_id
        /\ ~Updates[2].has_overrides
        /\ \A i \in 1..Len(calls) : IsUpdate(calls[i]) => i > 1

C1_Witness ==
    /\ pc = "returned" /\ EnableNoSchedule
    /\ calls[1].ret.profile_id = "p-default"
    /\ Len(Updates) = 2
    /\ Updates[2].profile_id = "p-default"
    /\ Updates[1].profile_id = "p-1"

\* C2: enable on a port with a schedule issues exactly one update; it carries
\* no profile_id and an overrides payload with scheduleEnable false and every
\* other setting equal to the value read at the start of the operation.
C2_EnableScheduleOneUpdate ==
    EnableWithSchedule =>
        /\ Len(Updates) <= 1
        /\ (pc \in {"returned", "exit"} => Len(Updates) = 1)
        /\ \A i \in 1..Len(Updates) :
              /\ Updates[i].profile_id = None
              /\ Updates[i].has_overrides
              /\ PayloadPreserves(Updates[i].overrides, calls[1].ret)
              /\ Updates[i].overrides["scheduleEnable"] = FALSE

C2_Witness ==
    /\ pc = "returned" /\ EnableWithSchedule
    /\ calls[1].ret.schedule_enable
    /\ DOMAIN calls[1].ret.data = {"eeeEnable", "fastLeaveEnable"}
    /\ Len(Updates) = 1
    /\ ~ctl_port.schedule_enable

\* C3: whenever enable completes on the no-schedule path, the port is enabled
\* afterwards and the reported state is "enabled", whatever profile the port
\* had at the start.
C3_EnableLeavesPortEnabled ==
    (pc = "returned" /\ EnableNoSchedule) =>
        /\ output[Len(output)] = "status: enabled"
        /\ ~is_disabled(ctl_port)

C5_DisableScheduleOneUpdate ==
    DisableWithSchedule =>
        /\ Len(Updates) <= 1
        /\ (pc \in {"returned", "exit"} => Len(Updates) = 1)
        /\ \A i \in 1..Len(Updates) :
              /\ Updates[i].profile_id = None
              /\ Updates[i].has_overrides
              /\ "scheduleEnable" \in DOMAIN Updates[i].overrides
              /\ Updates[i].overrides["scheduleEnable"] = TRUE
        /\ \A i \in 1..Len(calls) : calls[i].call # "get_port_profiles"

C5_Witness ==
    /\ pc = "returned" /\ DisableWithSchedule
    /\ ~calls[1].ret.schedule_enable
    /\ Len(Updates) = 1
    /\ ctl_port.schedule_enable

\* C6: with no profile named exactly "Disable", enable without a schedule and
\* the profile-swap disable end in the lookup error with no update issued and
\* the port as it was before the operation.
C6_NoDisableProfileNoUpdate ==
    (DisableIds = {} /\ (EnableNoSchedule \/ DisableProfileSwap)) =>
        /\ Len(Updates) = 0
        /\ ctl_port = start_port
        /\ pc \in {"e_lookup", "d_lookup", "error"}
        /\ (Len(calls) >= 2 /\ calls[2].ok => pc = "error" /\ error = "ValueError")
        /\ Len(calls) <= 2

C6_Witness ==
    /\ DisableIds = {} /\ EnableNoSchedule
    /\ Len(ctl_profiles) = 2
    /\ Len(calls) = 2 /\ calls[2].ok
    /\ error = "ValueError"

\* C7: in enable without a schedule, when the first update succeeds and the
\* restore update fails, no further call is issued, the port stays on the
\* "Disable" profile and the error propagates.
C7_FailedRestoreLeavesDisabled ==
    (/\ args.enable /\ Len(calls) >= 4
     /\ IsUpdate(calls[3]) /\ calls[3].ok
     /\ IsUpdate(calls[4]) /\ ~calls[4].ok) =>
        /\ Len(calls) = 4
        /\ pc = "error"
        /\ error = "ClientError"
        /\ ctl_port.profile_id = calls[3].profile_id
        /\ ctl_port.profile_id \in DisableIds

C7_Witness ==
    /\ args.enable /\ Len(calls) = 4
    /\ IsUpdate(calls[3]) /\ calls[3].ok
    /\ IsUpdate(calls[4]) /\ ~calls[4].ok
    /\ start_port.profile_id = "p-default"
    /\ ctl_port.profile_id = "p-1"
    /\ pc = "error"

\* C8: when the initial get_switch_port fails, no update and no
\* get_port_profiles call is issued; and the restore update carries the
\* profile id that first call read, and nothing else.
C8_FailedFirstReadNoMutation ==
    /\ (Len(calls) >= 1 /\ ~calls[1].ok) =>
          /\ Len(calls) = 1
          /\ calls[1].call = "get_switch_port"
          /\ pc = "error"
          /\ ctl_port = start_port
    /\ \A i \in 2..Len(calls) :
          (IsUpdate(calls[i]) /\ \E j \in 1..(i - 1) : IsUpdate(calls[j])) =>
              /\ PortRead
              /\ calls[i].profile_id = calls[1].ret.profile_id
              /\ calls[i].profile_id = original_profile
              /\ ~calls[i].has_overrides

C8_Witness ==
    /\ Len(calls) = 1 /\ ~calls[1].ok /\ pc = "error" /\ args.disable

\* C9 as stated: every branch that completes issues 1..3 updates and 1..2 reads.
C9_Original ==
    (pc = "returned") =>
        /\ Len(Updates) \in 1..3
        /\ Len(Reads) \in 1..2

\* C9 amended: every branch that completes issues 1..3 updates and 1..3 reads;
\* three reads are issued by enable without a schedule (port, profiles, refresh).
C9_CallCounts ==
    (pc = "returned") =>
        /\ Len(Updates) \in 1..3
        /\ Len(Reads) \in 1..3
        /\ (Len(Reads) = 3 <=> EnableNoSchedule)

C9_Witness ==
    /\ pc = "returned" /\ EnableNoSchedule
    /\ Len(Reads) = 3 /\ Len(Updates) = 2

\* C10 as stated: every update built from a get_switch_port read uses a read
\* made after the previous update of the operation.
C10_Original ==
    \A i \in 1..Len(calls) :
        (IsUpdate(calls[i]) /\ calls[i].from_read > 0) =>
            ~ \E j \in (calls[i].from_read + 1)..(i - 1) : IsUpdate(calls[j])

\* C10 amended: every update built from a get_switch_port read uses the one
\* read made at the start of the operation; no get_switch_port is issued
\* between two updates, and the restore update reuses the profile id read
\* before the temporary-disable update.
C10_SnapshotFromFirstRead ==
    /\ \A i \in 1..Len(calls) :
          (IsUpdate(calls[i]) /\ calls[i].from_read > 0) =>
              /\ calls[i].from_read = 1
              /\ PortRead
              /\ (calls[i].has_overrides =>
                     PayloadPreserves(calls[i].overrides, calls[1].ret))
              /\ (~calls[i].has_overrides =>
                     calls[i].profile_id = calls[1].ret.profile_id)
    /\ \A i \in 1..Len(calls) : \A j \in 1..Len(calls) :
          (i < j /\ IsUpdate(calls[i]) /\ IsUpdate(calls[j])) =>
              /\ calls[j].from_read = 1
              /\ \A k \in (i + 1)..(j - 1) : calls[k].call # "get_switch_port"

C10_Witness ==
    /\ Len(calls) >= 4
    /\ IsUpdate(calls[3]) /\ calls[3].ok
    /\ IsUpdate(calls[4]) /\ calls[4].ok /\ calls[4].from_read = 1
    /\ calls[4].profile_id = "p-default"
    /\ calls[3].profile_id = "p-1"

====
